---- MODULE Spec2Model ----
(***************************************************************************)
(* The transaction-confirmation monitor of mcp-ethereum                    *)
(* (wait_for_transaction_confirmation), in the lineages the repository     *)
(* holds, together with the chain it polls, the wall clock, the status     *)
(* channel and the MCP / CLI wrappers that deliver its result.             *)
(*                                                                         *)
(* One monitor invocation is modelled.  Every await of the handler is a    *)
(* step boundary: the chain may mine blocks between the height read and    *)
(* the receipt read, and between iterations.                               *)
(***************************************************************************)
EXTENDS Integers, Sequences, FiniteSets, TLC

(***************************************************************************)
(* Bounds of the model                                                     *)
(***************************************************************************)
MaxHeight == 3          \* blocks the chain may mine
MaxExpected == 2        \* largest requested number of confirmations
MaxIntervalSec == 1     \* largest requested poll interval, in seconds
MaxTimeoutSec == 1      \* largest requested timeout, in seconds
Tick == 500             \* granularity of read latency and timer lateness, ms
IterationCap == 2       \* iterations counted
ReportCap == 2          \* terminal status reports counted
ErrorCap == 1           \* error status reports counted
MaxProgressExpected == 4 \* largest number of confirmations in the progress runs
MaxProgressHeight == 5  \* largest height and inclusion height in the progress runs

(***************************************************************************)
(* Program constants                                                       *)
(***************************************************************************)
MsPerSecond == 1000     \* interval * 1000, timeout * 1000
HashDigits == 64        \* /^0x[a-fA-F0-9]{64}$/

Milestones == <<25, 50, 75, 100>>

(***************************************************************************)
(* The lineages of the monitor present in the repository                   *)
(***************************************************************************)
IndexPlain == "index_plain"      \* src/index.ts: no receipt.status check
IndexRevert == "index_revert"     \* reverted returned with isError: true
IndexProgress == "index_progress"   \* milestones, revertReason, nested revert
ToolSeconds == "tool_seconds"     \* tools/...: txHash, timeout in seconds
ToolMillis == "tool_millis"      \* tools/...: hash, timeout in ms, count + 1

Variants == {IndexPlain, IndexRevert, IndexProgress, ToolSeconds, ToolMillis}

\* A lineage and the wrapper that calls it.  The index lineages are MCP
\* handlers themselves; the tools are registered with the MCP server and,
\* for the lineage whose schema the CLI options name (--hash,
\* --confirmations, --timeout in ms), run as a CLI command.
Configurations ==
    {<<v, "mcp">> : v \in Variants} \cup {<<ToolMillis, "cli">>}

VARIABLES
    variant,                \* lineage of the handler
    frontend,               \* "mcp" | "cli"
    hash,                   \* txHash / hash of the request
    expected,               \* expectedConformations / confirmations
    interval,               \* interval, in seconds
    timeout,                \* timeout as given in the request
    height,                 \* chain: latest block number
    tx,                     \* chain: state of the monitored transaction
    now,                    \* wall clock, ms
    startTime,              \* const startTime = Date.now()
    pc,                     \* position of the handler
    currentBlockNumber,     \* const currentBlockNumber
    receipt,                \* const receipt
    lastMilestonePercentage,\* let lastMilestonePercentage
    milestones,             \* milestone reports handed to sendStatus, in order
    errorReports,           \* 'Error checking transaction status' reports (saturating)
    terminalReports,        \* 'was reverted' / 'confirmed with N' reports (saturating)
    reportFailed,           \* the status channel has failed under a report
    iterations,             \* iterations started so far (saturating)
    spent,                  \* time the current iteration spent in reads and timer lateness
    recovery,               \* what became of this iteration's revert-reason reads
    calls,                  \* the invocations of the concurrent runs
    toolCall,               \* a call of any tool through a wrapper: options, environment, progress
    readyInTime,            \* history: the chain held the needed height with a poll interval left
    outcome,                \* what the handler classified, NoOutcome while running
    delivered               \* what the caller of the MCP tool / CLI gets

chainVars == <<height, tx>>
reqVars == <<variant, frontend, hash, expected, interval, timeout, toolCall, readyInTime>>
localVars == <<currentBlockNumber, receipt, lastMilestonePercentage>>
obsVars == <<milestones, errorReports, terminalReports, reportFailed, iterations, spent,
            recovery>>
vars == <<variant, frontend, hash, expected, interval, timeout, height, tx, now, startTime,
          pc, currentBlockNumber, receipt, lastMilestonePercentage,
          milestones, errorReports, terminalReports, reportFailed, iterations, spent,
          recovery, calls, toolCall, readyInTime, outcome, delivered>>

(***************************************************************************)
(* Values                                                                  *)
(***************************************************************************)
NoBlock == -1
Pending == [state |-> "pending", blockNumber |-> NoBlock, status |-> "none"]
NoReceipt == [present |-> FALSE, blockNumber |-> NoBlock, status |-> "none"]

MsgTimeoutSeconds == "Timeout reached after N seconds"
ErrTimeoutMillis == "Timeout reached after N milliseconds waiting for transaction H"
ErrThrown == "thrown error message"

NoOutcome ==
    [kind |-> "none", blockNumber |-> NoBlock, confirmations |-> -1,
     receiptStatus |-> "none", revertReason |-> "absent", replacedBy |-> "absent",
     failure |-> FALSE, text |-> "absent", at |-> -1]

NoExit == -1
NotDelivered ==
    [done |-> FALSE, isError |-> FALSE, exitCode |-> NoExit, stderr |-> "none",
     status |-> "absent", message |-> "absent", error |-> "absent"]

ErrNoPrivateKey == "privateKey not provided. Cannot send transactions without a private key."

\* no tool call through the generic wrappers is under way
NoToolCall ==
    [tool |-> "none", generator |-> "none",
     localRpcUrl |-> FALSE, globalRpcUrl |-> FALSE, ecliRpcUrl |-> FALSE, envRpcUrl |-> FALSE,
     privateKey |-> "absent", behaviour |-> "returns",
     rpcUrl |-> "unresolved", executed |-> FALSE, submitted |-> FALSE]

\* two invocations of the handler, none of them started
CallIds == {1, 2}
NoCalls ==
    [lm |-> [c \in CallIds |-> 0],
     pc |-> [c \in CallIds |-> "start"],
     sent |-> [c \in CallIds |-> <<>>],
     out |-> [c \in CallIds |-> NoOutcome],
     alone |-> [c \in CallIds |-> [lm |-> 0, sent |-> <<>>, out |-> NoOutcome]]]

(***************************************************************************)
(* Pure parts of the handler                                               *)
(***************************************************************************)
\* const intervalMs = interval * 1000
IntervalMs(i) == i * MsPerSecond

\* const timeoutMs = timeout * 1000   (tool_millis: const timeoutMs = timeout ?? 300000)
TimeoutMs(v, t) == IF v = ToolMillis THEN t ELSE t * MsPerSecond

\* const confirmations = Number(currentBlockNumber - txBlockNumber)  (tool_millis: ... + 1)
Confirmations(v, cur, incl) == IF v = ToolMillis THEN (cur - incl) + 1 ELSE cur - incl

\* percentage >= milestone, with percentage = Math.floor((confirmations / expected) * 100);
\* a division by zero gives Infinity, -Infinity or NaN, and NaN compares false
PercentageAtLeast(conf, exp, m) ==
    IF exp = 0 THEN conf > 0 ELSE ((conf * 100) \div exp) >= m

\* shouldSendProgress
shouldSendProgress(conf, exp, lm) ==
    IF exp <= 1 THEN FALSE
    ELSE \E i \in 1..Len(Milestones) :
            PercentageAtLeast(conf, exp, Milestones[i]) /\ lm < Milestones[i]

\* sendProgress: the milestones reported, in order, and the new lastMilestonePercentage
RECURSIVE sendProgressFrom(_, _, _, _, _)
sendProgressFrom(i, conf, exp, lm, sent) ==
    IF i > Len(Milestones) THEN [sent |-> sent, lm |-> lm]
    ELSE IF PercentageAtLeast(conf, exp, Milestones[i]) /\ lm < Milestones[i]
         THEN sendProgressFrom(i + 1, conf, exp, Milestones[i], Append(sent, Milestones[i]))
         ELSE sendProgressFrom(i + 1, conf, exp, lm, sent)

\* sendProgress that does not look at lastMilestonePercentage
sendProgress_Forgetful(conf, exp, lm) == sendProgressFrom(1, conf, exp, 0, <<>>)

sendProgress(conf, exp, lm) == sendProgressFrom(1, conf, exp, lm, <<>>)

\* the receipt the chain returns for the monitored hash
ReceiptOf(t) ==
    IF t.state = "mined"
    THEN [present |-> TRUE, blockNumber |-> t.blockNumber, status |-> t.status]
    ELSE NoReceipt

(***************************************************************************)
(* Results the handler builds                                              *)
(***************************************************************************)
\* ConfirmedResult that reports the number of polls made as the count
ConfirmedResult_CountsPolls(rcpt, conf) ==
    [NoOutcome EXCEPT !.kind = "confirmed", !.blockNumber = rcpt.blockNumber,
                      !.confirmations = iterations, !.receiptStatus = rcpt.status]

\* the confirmed result: blockNumber, confirmations and receipt
ConfirmedResult(rcpt, conf) ==
    [NoOutcome EXCEPT !.kind = "confirmed", !.blockNumber = rcpt.blockNumber,
                      !.confirmations = conf, !.receiptStatus = rcpt.status]

\* index_revert sets isError: true on the reverted result; no lineage but
\* index_progress puts a revertReason in it
RevertedResult(v, rcpt, conf, reason) ==
    [NoOutcome EXCEPT !.kind = "reverted", !.blockNumber = rcpt.blockNumber,
                      !.confirmations = conf, !.receiptStatus = rcpt.status,
                      !.revertReason = reason, !.failure = (v = IndexRevert)]

\* TimeoutResult with the timeout returned as a value by every lineage
TimeoutResult_AsValue(v) ==
    [NoOutcome EXCEPT !.kind = "timeout", !.text = MsgTimeoutSeconds]

\* the return after the loop
TimeoutResult(v) ==
    IF v = ToolMillis
    THEN [NoOutcome EXCEPT !.kind = "timeout", !.failure = TRUE, !.text = ErrTimeoutMillis]
    ELSE [NoOutcome EXCEPT !.kind = "timeout", !.text = MsgTimeoutSeconds]

\* an exception that leaves execute
ThrownResult ==
    [NoOutcome EXCEPT !.kind = "thrown", !.failure = TRUE, !.text = ErrThrown]

(***************************************************************************)
(* Wrappers that deliver the result                                        *)
(***************************************************************************)
\* an index lineage returns the CallToolResult itself
HandlerCallToolResult(o) ==
    [done |-> TRUE, isError |-> o.failure, exitCode |-> NoExit, stderr |-> "none",
     status |-> o.kind, message |-> o.text, error |-> "absent"]

\* registerTool: convertToCallToolResult, also of the error caught around execute
convertToCallToolResult(o) ==
    IF o.failure
    THEN [done |-> TRUE, isError |-> TRUE, exitCode |-> NoExit, stderr |-> "none",
          status |-> "absent", message |-> "absent", error |-> o.text]
    ELSE [done |-> TRUE, isError |-> FALSE, exitCode |-> NoExit, stderr |-> "none",
          status |-> o.kind, message |-> o.text, error |-> "absent"]

\* generateToolCommand: formatToolResult, and the catch around the action
formatToolResult(o) ==
    IF ~o.failure
    THEN [done |-> TRUE, isError |-> FALSE, exitCode |-> 0, stderr |-> "none",
          status |-> o.kind, message |-> o.text, error |-> "absent"]
    ELSE [done |-> TRUE, isError |-> FALSE, exitCode |-> 1, stderr |-> "Error",
          status |-> "absent", message |-> "absent", error |-> o.text]

Deliver(v, fe, o) ==
    IF fe = "cli" THEN formatToolResult(o)
    ELSE IF v \in {ToolSeconds, ToolMillis} THEN convertToCallToolResult(o)
    ELSE HandlerCallToolResult(o)

\* sendStatus without its try / catch
sendStatusCatches_Never(fe) == FALSE

\* sendStatus of the MCP lineages wraps server.sendLoggingMessage in try / catch;
\* the CLI environment's sendStatus is a bare console.log
sendStatusCatches(fe) == fe = "mcp"

\* server.sendLoggingMessage may reject (no transport, closed session);
\* console.log of a string does not throw
ChannelFailures(fe) == IF fe = "mcp" THEN BOOLEAN ELSE {FALSE}

(***************************************************************************)
(* The body of one iteration after the two reads, per lineage.             *)
(*                                                                         *)
(* Arguments: cur = currentBlockNumber, rcpt = receipt, exp = expected     *)
(* confirmations, lm = lastMilestonePercentage, throws = sendStatus        *)
(* throws into the handler, txOk = getTransaction succeeds, simThrows =    *)
(* publicClient.call throws, blkOk = getBlock succeeds.                    *)
(* Result: next = "return" | "sleep" | "catch", the outcome when           *)
(* returning, the status message handed to sendStatus, whether that was a  *)
(* terminal message, the milestones reported and lastMilestonePercentage.  *)
(***************************************************************************)
Step(next, out, status, terminal, sent, lm) ==
    [next |-> next, out |-> out, status |-> status, terminal |-> terminal,
     sent |-> sent, lm |-> lm]

\* src/index.ts: confirmed whenever the count is reached, whatever receipt.status
ClassifyPlain(v, cur, rcpt, exp, lm) ==
    IF ~rcpt.present THEN Step("sleep", NoOutcome, "not-mined", FALSE, <<>>, lm)
    ELSE LET conf == Confirmations(v, cur, rcpt.blockNumber) IN
         IF conf >= exp
         THEN Step("return", ConfirmedResult(rcpt, conf), "confirmed", TRUE, <<>>, lm)
         ELSE Step("sleep", NoOutcome, "waiting", FALSE, <<>>, lm)

\* ClassifyStatusFirst with the threshold test off by one (confirmations + 1 >= expected)
ClassifyStatusFirst_OffByOne(v, cur, rcpt, exp, lm, throws, txOk, blkOk) ==
    IF ~rcpt.present
    THEN Step("sleep", NoOutcome, "not-mined", FALSE, <<>>, lm)
    ELSE LET conf == Confirmations(v, cur, rcpt.blockNumber) IN
         IF rcpt.status = "reverted"
         THEN IF throws \/ ~txOk
              THEN Step("catch", NoOutcome, "reverted", TRUE, <<>>, lm)
              ELSE Step("return", RevertedResult(v, rcpt, conf, "absent"),
                        "reverted", TRUE, <<>>, lm)
         ELSE IF ~blkOk THEN Step("catch", NoOutcome, "none", FALSE, <<>>, lm)
         ELSE IF conf + 1 >= exp
              THEN Step("return", ConfirmedResult(rcpt, conf), "confirmed", TRUE, <<>>, lm)
              ELSE Step("sleep", NoOutcome, "waiting", FALSE, <<>>, lm)

\* index_revert, tool_seconds, tool_millis: reverted first, then getBlock, then the count
ClassifyStatusFirst(v, cur, rcpt, exp, lm, throws, txOk, blkOk) ==
    IF ~rcpt.present
    THEN IF throws THEN Step("catch", NoOutcome, "not-mined", FALSE, <<>>, lm)
         ELSE Step("sleep", NoOutcome, "not-mined", FALSE, <<>>, lm)
    ELSE LET conf == Confirmations(v, cur, rcpt.blockNumber) IN
         IF rcpt.status = "reverted"
         THEN IF throws \/ ~txOk
              THEN Step("catch", NoOutcome, "reverted", TRUE, <<>>, lm)
              ELSE Step("return", RevertedResult(v, rcpt, conf, "absent"),
                        "reverted", TRUE, <<>>, lm)
         ELSE IF ~blkOk THEN Step("catch", NoOutcome, "none", FALSE, <<>>, lm)
         ELSE IF conf >= exp
              THEN IF throws THEN Step("catch", NoOutcome, "confirmed", TRUE, <<>>, lm)
                   ELSE Step("return", ConfirmedResult(rcpt, conf),
                             "confirmed", TRUE, <<>>, lm)
              ELSE IF throws THEN Step("catch", NoOutcome, "waiting", FALSE, <<>>, lm)
                   ELSE Step("sleep", NoOutcome, "waiting", FALSE, <<>>, lm)

\* revert reason recovery of index_progress: "Unknown" unless the simulated call throws
RevertReason(txOk, simThrows) ==
    IF txOk /\ simThrows THEN "call error message" ELSE "Unknown"

\* ClassifyProgress whose confirmed branch sends the status without sendProgress
ClassifyProgress_SilentConfirm(v, cur, rcpt, exp, lm, txOk, simThrows) ==
    IF ~rcpt.present THEN Step("sleep", NoOutcome, "not-mined", FALSE, <<>>, lm)
    ELSE LET conf == Confirmations(v, cur, rcpt.blockNumber)
             prog == sendProgress(conf, exp, lm)
         IN
         IF conf >= exp
         THEN IF rcpt.status = "success"
              THEN Step("return", ConfirmedResult(rcpt, conf), "confirmed", TRUE, <<>>, lm)
              ELSE Step("return", RevertedResult(v, rcpt, conf, RevertReason(txOk, simThrows)),
                        "reverted", TRUE, prog.sent, prog.lm)
         ELSE IF shouldSendProgress(conf, exp, lm)
              THEN Step("sleep", NoOutcome, "waiting", FALSE, prog.sent, prog.lm)
              ELSE Step("sleep", NoOutcome, "waiting", FALSE, <<>>, lm)

\* index_progress: the status is looked at only once the count is reached
ClassifyProgress(v, cur, rcpt, exp, lm, txOk, simThrows) ==
    IF ~rcpt.present THEN Step("sleep", NoOutcome, "not-mined", FALSE, <<>>, lm)
    ELSE LET conf == Confirmations(v, cur, rcpt.blockNumber)
             prog == sendProgress(conf, exp, lm)
         IN
         IF conf >= exp
         THEN IF rcpt.status = "success"
              THEN Step("return", ConfirmedResult(rcpt, conf),
                        "confirmed", TRUE, prog.sent, prog.lm)
              ELSE Step("return", RevertedResult(v, rcpt, conf, RevertReason(txOk, simThrows)),
                        "reverted", TRUE, prog.sent, prog.lm)
         ELSE IF shouldSendProgress(conf, exp, lm)
              THEN Step("sleep", NoOutcome, "waiting", FALSE, prog.sent, prog.lm)
              ELSE Step("sleep", NoOutcome, "waiting", FALSE, <<>>, lm)

\* the reads made to recover the revert reason: "none" when the iteration makes
\* none, "ok", or the read that failed
Recovery(v, cur, rcpt, exp, throws, txOk, simThrows) ==
    IF ~rcpt.present \/ rcpt.status # "reverted" \/ v = IndexPlain THEN "none"
    ELSE IF v = IndexProgress
         THEN IF Confirmations(v, cur, rcpt.blockNumber) < exp THEN "none"
              ELSE IF ~txOk THEN "getTransaction"
              ELSE IF simThrows THEN "call"
              ELSE "ok"
         ELSE IF throws THEN "none"
              ELSE IF ~txOk THEN "getTransaction"
              ELSE "ok"

Classify(v, cur, rcpt, exp, lm, throws, txOk, simThrows, blkOk) ==
    CASE v = IndexPlain -> ClassifyPlain(v, cur, rcpt, exp, lm)
      [] v = IndexProgress -> ClassifyProgress(v, cur, rcpt, exp, lm, txOk, simThrows)
      [] OTHER -> ClassifyStatusFirst(v, cur, rcpt, exp, lm, throws, txOk, blkOk)

(***************************************************************************)
(* The transaction hash and its validation.  A hash string is described by *)
(* what the schema's regular expression looks at: its prefix, the number   *)
(* of characters after the prefix and whether all of them are hex digits.  *)
(***************************************************************************)
HashInputs ==
    [prefix : {"0x", "0X", ""},
     digits : {HashDigits - 1, HashDigits, HashDigits + 1},
     hex : BOOLEAN]

\* the regular expression without its length: /^0x[a-fA-F0-9]+$/
HashMatches_AnyLength(h) == h.prefix = "0x" /\ h.hex

\* z.string().regex(/^0x[a-fA-F0-9]{64}$/)
HashMatches(h) == h.prefix = "0x" /\ h.digits = HashDigits /\ h.hex

\* the hash of the monitored transaction
MonitoredHash == [prefix |-> "0x", digits |-> HashDigits, hex |-> TRUE]

\* the schema's error, as the wrapper hands it to the caller
RejectedResult ==
    [NoOutcome EXCEPT !.kind = "rejected", !.failure = TRUE, !.text = "validation error"]

(***************************************************************************)
(* Inputs                                                                  *)
(***************************************************************************)
\* z.number(): the schema accepts zero as well
ExpectedInputs == 0..MaxExpected
IntervalInputs == 0..MaxIntervalSec
TimeoutInputs(v) ==
    IF v = ToolMillis THEN {t * MsPerSecond : t \in 0..MaxTimeoutSec} ELSE 0..MaxTimeoutSec

Delays == {0, Tick}         \* time a chain read takes, lateness of a timer
ReceiptStatuses == {"success", "reverted"}

\* no run of the handler reaches this clock value
MaxClock == (MaxTimeoutSec + MaxIntervalSec + 1) * MsPerSecond + 4 * Tick

Advance(t, d) == IF t + d > MaxClock THEN MaxClock ELSE t + d
Saturate(n, cap) == IF n < cap THEN n + 1 ELSE n

Init ==
    /\ \E c \in Configurations : variant = c[1] /\ frontend = c[2]
    /\ hash = MonitoredHash
    /\ expected \in ExpectedInputs
    /\ interval \in IntervalInputs
    /\ timeout \in TimeoutInputs(variant)
    /\ height = 0
    /\ tx = Pending
    /\ now = 0
    /\ startTime = 0
    /\ pc = "start"
    /\ currentBlockNumber = 0
    /\ receipt = NoReceipt
    /\ lastMilestonePercentage = 0
    /\ milestones = <<>>
    /\ errorReports = 0
    /\ terminalReports = 0
    /\ reportFailed = FALSE
    /\ iterations = 0
    /\ spent = 0
    /\ recovery = "none"
    /\ calls = NoCalls
    /\ toolCall = NoToolCall
    /\ readyInTime = FALSE
    /\ outcome = NoOutcome
    /\ delivered = NotDelivered

\* the call runs, the transaction is mined with success, the height h gives
\* the expected confirmations and a full poll interval is left before the
\* deadline of a call started at st
ReadyInTime(h, t, p, st) ==
    /\ p \notin {"start", "done"}
    /\ t.state = "mined" /\ t.status = "success"
    /\ Confirmations(variant, h, t.blockNumber) >= expected
    /\ st + TimeoutMs(variant, timeout) - now >= IntervalMs(interval)

requestVars == <<variant, frontend, hash, expected, interval, timeout, toolCall>>

(***************************************************************************)
(* The chain                                                               *)
(***************************************************************************)
MineBlock ==
    /\ height < MaxHeight
    /\ height' = height + 1
    /\ readyInTime' = (readyInTime \/ ReadyInTime(height + 1, tx, pc, startTime))
    /\ UNCHANGED <<tx, requestVars, calls, now, startTime, pc, localVars, obsVars, outcome,
                   delivered>>

\* the monitored transaction is included in the next block
IncludeTransaction ==
    /\ height < MaxHeight
    /\ tx.state = "pending"
    /\ \E st \in ReceiptStatuses :
          tx' = [state |-> "mined", blockNumber |-> height + 1, status |-> st]
    /\ height' = height + 1
    /\ readyInTime' = (readyInTime \/ ReadyInTime(height + 1, tx', pc, startTime))
    /\ UNCHANGED <<requestVars, calls, now, startTime, pc, localVars, obsVars, outcome,
                   delivered>>

\* another transaction of the same sender and nonce is included instead
IncludeReplacement ==
    /\ height < MaxHeight
    /\ tx.state = "pending"
    /\ tx' = [state |-> "replaced", blockNumber |-> height + 1, status |-> "none"]
    /\ height' = height + 1
    /\ UNCHANGED <<reqVars, calls, now, startTime, pc, localVars, obsVars, outcome, delivered>>

(***************************************************************************)
(* The handler                                                             *)
(***************************************************************************)
\* Finish that hands the result over and lets the loop go on
Finish_Reenters(o) ==
    /\ outcome' = [o EXCEPT !.at = now]
    /\ delivered' = Deliver(variant, frontend, o)
    /\ pc' = IF o.kind = "timeout" THEN "done" ELSE "sleep"

\* return: the result goes through the wrapper to the caller
Finish(o) ==
    /\ outcome' = [o EXCEPT !.at = now]
    /\ delivered' = Deliver(variant, frontend, o)
    /\ pc' = "done"

\* const startTime = Date.now()
Start ==
    /\ pc = "start"
    /\ startTime' = now
    /\ pc' = "guard"
    /\ readyInTime' = (readyInTime \/ ReadyInTime(height, tx, "guard", now))
    /\ UNCHANGED <<chainVars, requestVars, calls, now, localVars, obsVars, outcome, delivered>>

\* LoopGuard with the deadline included (<= instead of <)
LoopGuard_Inclusive ==
    /\ pc = "guard"
    /\ IF now - startTime <= TimeoutMs(variant, timeout)
       THEN /\ pc' = "getBlockNumber"
            /\ iterations' = Saturate(iterations, IterationCap)
            /\ spent' = 0
            /\ recovery' = "none"
            /\ UNCHANGED <<outcome, delivered>>
       ELSE /\ Finish(TimeoutResult(variant))
            /\ UNCHANGED <<iterations, spent, recovery>>
    /\ UNCHANGED <<chainVars, reqVars, calls, now, startTime, localVars, milestones,
                   errorReports, terminalReports, reportFailed>>

\* while (Date.now() - startTime < timeoutMs) ... and the return after the loop
LoopGuard ==
    /\ pc = "guard"
    /\ IF now - startTime < TimeoutMs(variant, timeout)
       THEN /\ pc' = "getBlockNumber"
            /\ iterations' = Saturate(iterations, IterationCap)
            /\ spent' = 0
            /\ recovery' = "none"
            /\ UNCHANGED <<outcome, delivered>>
       ELSE /\ Finish(TimeoutResult(variant))
            /\ UNCHANGED <<iterations, spent, recovery>>
    /\ UNCHANGED <<chainVars, reqVars, calls, now, startTime, localVars, milestones,
                   errorReports, terminalReports, reportFailed>>

\* const currentBlockNumber = await publicClient.getBlockNumber()
GetBlockNumber ==
    /\ pc = "getBlockNumber"
    /\ \E d \in Delays : now' = Advance(now, d) /\ spent' = spent + d
    /\ \/ /\ currentBlockNumber' = height
          /\ pc' = "getTransactionReceipt"
       \/ /\ pc' = "catch"
          /\ UNCHANGED currentBlockNumber
    /\ UNCHANGED <<chainVars, reqVars, calls, startTime, receipt, lastMilestonePercentage,
                   milestones, errorReports, terminalReports, reportFailed, iterations,
                   recovery, outcome, delivered>>

\* const receipt = await publicClient.getTransactionReceipt({hash})
GetTransactionReceipt ==
    /\ pc = "getTransactionReceipt"
    /\ \E d \in Delays : now' = Advance(now, d) /\ spent' = spent + d
    /\ \/ /\ receipt' = ReceiptOf(tx)
          /\ pc' = "classify"
       \/ /\ pc' = "catch"
          /\ UNCHANGED receipt
    /\ UNCHANGED <<chainVars, reqVars, calls, startTime, currentBlockNumber,
                   lastMilestonePercentage, milestones, errorReports, terminalReports,
                   reportFailed, iterations, recovery, outcome, delivered>>

\* if (receipt) { ... } else { ... }: the rest of the try block
ClassifyReceipt ==
    /\ pc = "classify"
    /\ \E rf \in ChannelFailures(frontend) : \E txOk, simThrows, blkOk \in BOOLEAN :
          LET throws == rf /\ ~sendStatusCatches(frontend)
              r == Classify(variant, currentBlockNumber, receipt, expected,
                            lastMilestonePercentage, throws, txOk, simThrows, blkOk)
          IN /\ milestones' = milestones \o r.sent
             /\ lastMilestonePercentage' = r.lm
             /\ terminalReports' = IF r.terminal THEN Saturate(terminalReports, ReportCap)
                                   ELSE terminalReports
             /\ reportFailed' = (reportFailed \/ (rf /\ r.status # "none"))
             /\ recovery' = Recovery(variant, currentBlockNumber, receipt, expected,
                                     throws, txOk, simThrows)
             /\ IF r.next = "return"
                THEN Finish(r.out)
                ELSE /\ pc' = r.next
                     /\ UNCHANGED <<outcome, delivered>>
    /\ UNCHANGED <<chainVars, reqVars, calls, now, startTime, currentBlockNumber, receipt,
                   errorReports, iterations, spent>>

\* CatchError whose status report never resolves
CatchError_Hangs ==
    /\ pc = "catch"
    /\ errorReports' = Saturate(errorReports, ErrorCap)
    /\ pc' = "catch"
    /\ UNCHANGED <<chainVars, reqVars, calls, now, startTime, localVars, milestones,
                   terminalReports, reportFailed, iterations, spent, recovery,
                   outcome, delivered>>

\* CatchError that rethrows the error it caught
CatchError_Rethrow ==
    /\ pc = "catch"
    /\ errorReports' = Saturate(errorReports, ErrorCap)
    /\ \E rf \in ChannelFailures(frontend) : reportFailed' = (reportFailed \/ rf)
    /\ Finish(ThrownResult)
    /\ UNCHANGED <<chainVars, reqVars, calls, now, startTime, localVars, milestones,
                   terminalReports, iterations, spent, recovery>>

\* catch (error) { await sendStatus(`Error checking transaction status: ...`) }
CatchError ==
    /\ pc = "catch"
    /\ errorReports' = Saturate(errorReports, ErrorCap)
    /\ \E rf \in ChannelFailures(frontend) :
          /\ reportFailed' = (reportFailed \/ rf)
          /\ IF rf /\ ~sendStatusCatches(frontend)
             THEN Finish(ThrownResult)
             ELSE /\ pc' = "sleep"
                  /\ UNCHANGED <<outcome, delivered>>
    /\ UNCHANGED <<chainVars, reqVars, calls, now, startTime, localVars, milestones,
                   terminalReports, iterations, spent, recovery>>

\* a sleep that resolves at once
Sleep_NoWait ==
    /\ pc = "sleep"
    /\ pc' = "guard"
    /\ UNCHANGED <<chainVars, reqVars, calls, now, startTime, localVars, milestones, errorReports,
                   terminalReports, reportFailed, iterations, spent, recovery, outcome,
                   delivered>>

\* await sleep(intervalMs)
Sleep ==
    /\ pc = "sleep"
    /\ \E late \in Delays :
          /\ now' = Advance(now, IntervalMs(interval) + late)
          /\ spent' = spent + late
    /\ pc' = "guard"
    /\ UNCHANGED <<chainVars, reqVars, calls, startTime, localVars, milestones, errorReports,
                   terminalReports, reportFailed, iterations, recovery, outcome, delivered>>

Next ==
    \/ MineBlock
    \/ IncludeTransaction
    \/ IncludeReplacement
    \/ Start
    \/ LoopGuard
    \/ GetBlockNumber
    \/ GetTransactionReceipt
    \/ ClassifyReceipt
    \/ CatchError
    \/ Sleep

Spec == Init /\ [][Next]_vars

(***************************************************************************)
(* Fairness: each read, report and sleep completes, and wall-clock time    *)
(* passes while the handler keeps awaiting.                                *)
(***************************************************************************)
TimePasses == (GetBlockNumber \/ GetTransactionReceipt \/ Sleep) /\ now' > now

LiveSpec ==
    /\ Spec
    /\ WF_vars(Start)
    /\ WF_vars(LoopGuard)
    /\ WF_vars(GetBlockNumber)
    /\ WF_vars(GetTransactionReceipt)
    /\ WF_vars(ClassifyReceipt)
    /\ WF_vars(CatchError)
    /\ WF_vars(Sleep)
    /\ SF_vars(TimePasses)

(***************************************************************************)
(* Requests as the wrappers receive them: the parameters are validated     *)
(* against the tool's schema before the handler is called.                 *)
(***************************************************************************)
ValidationInit ==
    /\ \E c \in Configurations : variant = c[1] /\ frontend = c[2]
    /\ hash \in HashInputs
    /\ expected \in ExpectedInputs
    /\ interval \in IntervalInputs
    /\ timeout \in TimeoutInputs(variant)
    /\ height = 0
    /\ tx = Pending
    /\ now = 0
    /\ startTime = 0
    /\ pc = "validate"
    /\ currentBlockNumber = 0
    /\ receipt = NoReceipt
    /\ lastMilestonePercentage = 0
    /\ milestones = <<>>
    /\ errorReports = 0
    /\ terminalReports = 0
    /\ reportFailed = FALSE
    /\ iterations = 0
    /\ spent = 0
    /\ recovery = "none"
    /\ calls = NoCalls
    /\ toolCall = NoToolCall
    /\ readyInTime = FALSE
    /\ outcome = NoOutcome
    /\ delivered = NotDelivered

\* parseAndValidateParams(tool.schema, params) before tool.execute (CLI);
\* the inputSchema registered with the MCP server (MCP)
ValidateParams ==
    /\ pc = "validate"
    /\ IF HashMatches(hash)
       THEN /\ pc' = "start"
            /\ UNCHANGED <<outcome, delivered>>
       ELSE /\ outcome' = [RejectedResult EXCEPT !.at = now]
            /\ delivered' = IF frontend = "cli" THEN formatToolResult(RejectedResult)
                             ELSE convertToCallToolResult(RejectedResult)
            /\ pc' = "done"
    /\ UNCHANGED <<chainVars, reqVars, calls, now, startTime, localVars, obsVars>>

ValidationNext == ValidateParams \/ Next

ValidationSpec == ValidationInit /\ [][ValidationNext]_vars

(***************************************************************************)
(* Progress reporting over arbitrary observations.                         *)
(*                                                                         *)
(* The handler with the milestone reports (index_progress), one whole      *)
(* iteration per step: the height and the receipt its two reads return     *)
(* are arbitrary, so that the confirmation count may jump, stay or         *)
(* decrease from one iteration to the next.                                *)
(***************************************************************************)
ProgressReceipts ==
    {NoReceipt} \cup
    {[present |-> TRUE, blockNumber |-> b, status |-> st] :
        b \in 0..MaxProgressHeight, st \in ReceiptStatuses}

ProgressInit ==
    /\ variant = IndexProgress
    /\ frontend = "mcp"
    /\ hash = MonitoredHash
    /\ expected \in 0..MaxProgressExpected
    /\ interval = 0
    /\ timeout = 1
    /\ height = 0
    /\ tx = Pending
    /\ now = 0
    /\ startTime = 0
    /\ pc = "guard"
    /\ currentBlockNumber = 0
    /\ receipt = NoReceipt
    /\ lastMilestonePercentage = 0
    /\ milestones = <<>>
    /\ errorReports = 0
    /\ terminalReports = 0
    /\ reportFailed = FALSE
    /\ iterations = 0
    /\ spent = 0
    /\ recovery = "none"
    /\ calls = NoCalls
    /\ toolCall = NoToolCall
    /\ readyInTime = FALSE
    /\ outcome = NoOutcome
    /\ delivered = NotDelivered

\* one iteration of the while loop whose reads succeed
PollProgress ==
    /\ pc = "guard"
    /\ \E cur \in 0..MaxProgressHeight, rcpt \in ProgressReceipts :
       \E txOk, simThrows \in BOOLEAN :
          LET r == ClassifyProgress(variant, cur, rcpt, expected,
                                    lastMilestonePercentage, txOk, simThrows)
          IN /\ currentBlockNumber' = cur
             /\ receipt' = rcpt
             /\ milestones' = milestones \o r.sent
             /\ lastMilestonePercentage' = r.lm
             /\ terminalReports' = IF r.terminal THEN Saturate(terminalReports, ReportCap)
                                   ELSE terminalReports
             /\ recovery' = Recovery(variant, cur, rcpt, expected, FALSE, txOk, simThrows)
             /\ IF r.next = "return"
                THEN Finish(r.out)
                ELSE /\ pc' = "guard"
                     /\ UNCHANGED <<outcome, delivered>>
    /\ iterations' = Saturate(iterations, IterationCap)
    /\ UNCHANGED <<chainVars, reqVars, calls, now, startTime, errorReports, reportFailed, spent>>

ProgressSpec == ProgressInit /\ [][PollProgress]_vars

(***************************************************************************)
(* Two invocations of the handler with the milestone reports, running      *)
(* concurrently: their iterations interleave in any order.  Next to each   *)
(* invocation runs its reference, the same handler given the same          *)
(* observations with a lastMilestonePercentage nobody else can touch.      *)
(***************************************************************************)
monitorVars == <<chainVars, reqVars, now, startTime, pc, localVars, obsVars,
                 outcome, delivered>>

ConcurrentReceipts ==
    {NoReceipt} \cup
    {[present |-> TRUE, blockNumber |-> 0, status |-> st] : st \in ReceiptStatuses}

\* lastMilestonePercentage kept in one place for all invocations
LmCell_Shared(i) == 1

\* let lastMilestonePercentage = 0 is declared inside the handler: one per call
LmCell(i) == i

ConcurrentInit ==
    /\ variant = IndexProgress
    /\ frontend = "mcp"
    /\ hash = MonitoredHash
    /\ expected \in 0..MaxProgressExpected
    /\ interval = 0
    /\ timeout = 1
    /\ height = 0
    /\ tx = Pending
    /\ now = 0
    /\ startTime = 0
    /\ pc = "start"
    /\ currentBlockNumber = 0
    /\ receipt = NoReceipt
    /\ lastMilestonePercentage = 0
    /\ milestones = <<>>
    /\ errorReports = 0
    /\ terminalReports = 0
    /\ reportFailed = FALSE
    /\ iterations = 0
    /\ spent = 0
    /\ recovery = "none"
    /\ calls = NoCalls
    /\ toolCall = NoToolCall
    /\ readyInTime = FALSE
    /\ outcome = NoOutcome
    /\ delivered = NotDelivered

\* the handler is entered: let lastMilestonePercentage = 0
StartCall(i) ==
    /\ calls.pc[i] = "start"
    /\ calls' = [calls EXCEPT !.pc[i] = "guard", !.lm[LmCell(i)] = 0]
    /\ UNCHANGED monitorVars

\* one iteration of invocation i whose reads succeed
PollCall(i) ==
    /\ calls.pc[i] = "guard"
    /\ \E cur \in 0..MaxProgressHeight, rcpt \in ConcurrentReceipts :
       \E txOk, simThrows \in BOOLEAN :
          LET r == ClassifyProgress(variant, cur, rcpt, expected,
                                    calls.lm[LmCell(i)], txOk, simThrows)
              a == ClassifyProgress(variant, cur, rcpt, expected,
                                    calls.alone[i].lm, txOk, simThrows)
          IN calls' = [calls EXCEPT
                 !.lm[LmCell(i)] = r.lm,
                 !.sent[i] = @ \o r.sent,
                 !.out[i] = IF r.next = "return" THEN r.out ELSE @,
                 !.pc[i] = IF r.next = "return" THEN "done" ELSE "guard",
                 !.alone[i] = [lm |-> a.lm,
                               sent |-> @.sent \o a.sent,
                               out |-> IF a.next = "return" THEN a.out ELSE @.out]]
    /\ UNCHANGED monitorVars

ConcurrentNext == \E i \in CallIds : StartCall(i) \/ PollCall(i)

ConcurrentSpec == ConcurrentInit /\ [][ConcurrentNext]_vars

(***************************************************************************)
(* Calls with time for several polls: positive parameters and a timeout    *)
(* longer than the poll interval, so that a sleep is followed by a poll.   *)
(***************************************************************************)
PatientTimeouts(v) ==
    IF v = ToolMillis THEN {(MaxTimeoutSec + 1) * MsPerSecond} ELSE {MaxTimeoutSec + 1}

PatientInit ==
    /\ \E c \in Configurations : variant = c[1] /\ frontend = c[2]
    /\ hash = MonitoredHash
    /\ expected \in 1..MaxExpected
    /\ interval \in 1..MaxIntervalSec
    /\ timeout \in PatientTimeouts(variant)
    /\ height = 0
    /\ tx = Pending
    /\ now = 0
    /\ startTime = 0
    /\ pc = "start"
    /\ currentBlockNumber = 0
    /\ receipt = NoReceipt
    /\ lastMilestonePercentage = 0
    /\ milestones = <<>>
    /\ errorReports = 0
    /\ terminalReports = 0
    /\ reportFailed = FALSE
    /\ iterations = 0
    /\ spent = 0
    /\ recovery = "none"
    /\ calls = NoCalls
    /\ toolCall = NoToolCall
    /\ readyInTime = FALSE
    /\ outcome = NoOutcome
    /\ delivered = NotDelivered

PatientSpec == PatientInit /\ [][Next]_vars

(***************************************************************************)
(* A call of a tool through the wrappers: the MCP registration             *)
(* (registerTool / registerMCPTool) and the CLI command generated for the  *)
(* tool, in the two generators the repository holds: the one that looks    *)
(* at the options only and the one that falls back to the environment.     *)
(***************************************************************************)
GeneratorOptions == "generator_options"  \* src/cli-tool-generator.ts
GeneratorEnv == "generator_env"          \* options, then ECLI_RPC_URL, then RPC_URL

ToolNames == {"send_transaction", "call_contract"}

ToolCalls ==
    [tool : ToolNames, generator : {GeneratorOptions, GeneratorEnv},
     localRpcUrl : BOOLEAN, globalRpcUrl : BOOLEAN, ecliRpcUrl : BOOLEAN, envRpcUrl : BOOLEAN,
     privateKey : {"absent", "valid", "malformed"},
     behaviour : {"returns", "fails", "throws"},
     rpcUrl : {"unresolved"}, executed : {FALSE}, submitted : {FALSE}]

\* a server is created with a usable key or with none, and takes no options
McpToolCalls ==
    {c \in ToolCalls :
        /\ c.generator = GeneratorOptions
        /\ ~c.localRpcUrl /\ ~c.globalRpcUrl /\ ~c.ecliRpcUrl /\ ~c.envRpcUrl
        /\ c.privateKey # "malformed"}

\* options.rpcUrl || globalOptions.rpcUrl || process.env.ECLI_RPC_URL || process.env.RPC_URL
\* (src/cli-tool-generator.ts: options.rpcUrl || globalOptions.rpcUrl)
RpcUrl(c) ==
    IF c.localRpcUrl THEN "local"
    ELSE IF c.globalRpcUrl THEN "global"
    ELSE IF c.generator = GeneratorEnv /\ c.ecliRpcUrl THEN "ecli"
    ELSE IF c.generator = GeneratorEnv /\ c.envRpcUrl THEN "env"
    ELSE "none"

\* the walletClient always there
NoWalletClient_Never(key) == FALSE

\* getClients: walletClient = account ? createWalletClient(...) : undefined
NoWalletClient(key) == key = "absent"

\* console.error('Error: ...'); process.exit(1) before the tool is executed
ExitBeforeExecute ==
    [NotDelivered EXCEPT !.done = TRUE, !.exitCode = 1, !.stderr = "Error"]

\* what tool.execute does: its return value, or the exception it throws
ExecuteResult(c) ==
    IF c.tool = "send_transaction" /\ NoWalletClient(c.privateKey)
    THEN [NoOutcome EXCEPT !.kind = "result", !.failure = TRUE, !.text = ErrNoPrivateKey]
    ELSE CASE c.behaviour = "returns" -> [NoOutcome EXCEPT !.kind = "result"]
           [] c.behaviour = "fails" ->
                [NoOutcome EXCEPT !.kind = "result", !.failure = TRUE, !.text = "tool error"]
           [] OTHER -> ThrownResult

\* a wrapper without the catch around tool.execute: the exception leaves it
DeliverThrown_Propagates(fe, o) == NotDelivered

\* catch (error) { ... } around tool.execute: the error envelope, or 'Error:' and exit(1)
DeliverThrown(fe, o) ==
    IF fe = "cli" THEN formatToolResult(o) ELSE convertToCallToolResult(o)

ToolCallInit ==
    /\ variant = ToolMillis
    /\ frontend \in {"mcp", "cli"}
    /\ toolCall \in (IF frontend = "mcp" THEN McpToolCalls ELSE ToolCalls)
    /\ pc = IF frontend = "mcp" THEN "execute" ELSE "resolve"
    /\ hash = MonitoredHash
    /\ expected = 1
    /\ interval = 1
    /\ timeout = MsPerSecond
    /\ height = 0
    /\ tx = Pending
    /\ now = 0
    /\ startTime = 0
    /\ currentBlockNumber = 0
    /\ receipt = NoReceipt
    /\ lastMilestonePercentage = 0
    /\ milestones = <<>>
    /\ errorReports = 0
    /\ terminalReports = 0
    /\ reportFailed = FALSE
    /\ iterations = 0
    /\ spent = 0
    /\ recovery = "none"
    /\ calls = NoCalls
    /\ readyInTime = FALSE
    /\ outcome = NoOutcome
    /\ delivered = NotDelivered

toolCallFrame ==
    <<variant, frontend, hash, expected, interval, timeout, chainVars, now, startTime,
      localVars, obsVars, calls, readyInTime>>

\* the head of the command action: the RPC URL and the private key
ResolveOptions ==
    /\ pc = "resolve"
    /\ IF RpcUrl(toolCall) = "none" \/ toolCall.privateKey = "malformed"
       THEN /\ delivered' = ExitBeforeExecute
            /\ pc' = "done"
            /\ UNCHANGED toolCall
       ELSE /\ toolCall' = [toolCall EXCEPT !.rpcUrl = RpcUrl(toolCall)]
            /\ pc' = "execute"
            /\ UNCHANGED delivered
    /\ UNCHANGED <<toolCallFrame, outcome>>

\* const result = await tool.execute(env, params), inside the wrapper's try
ExecuteTool ==
    /\ pc = "execute"
    /\ LET o == ExecuteResult(toolCall)
       IN /\ outcome' = [o EXCEPT !.at = now]
          /\ delivered' = IF o.kind = "thrown" THEN DeliverThrown(frontend, o)
                           ELSE Deliver(variant, frontend, o)
          /\ toolCall' = [toolCall EXCEPT
                 !.executed = TRUE,
                 !.submitted = (toolCall.tool = "send_transaction" /\ o.kind = "result"
                                /\ ~o.failure)]
    /\ pc' = "done"
    /\ UNCHANGED toolCallFrame

ToolCallNext == ResolveOptions \/ ExecuteTool

ToolCallSpec == ToolCallInit /\ [][ToolCallNext]_vars

(***************************************************************************)
(* Properties                                                              *)
(***************************************************************************)
Elapsed == outcome.at - startTime
TerminalKinds == {"confirmed", "reverted", "replaced", "timeout"}
ContainsTimeoutReached(text) == text \in {MsgTimeoutSeconds, ErrTimeoutMillis}

\* C1: Confirmed is returned only in an iteration whose computed confirmation
\* count, taken from that iteration's height and receipt, is at least the
\* expected number of confirmations.
C1_ConfirmedOnlyAtThreshold ==
    outcome.kind = "confirmed" =>
        /\ receipt.present
        /\ outcome.blockNumber = receipt.blockNumber
        /\ outcome.confirmations =
              IF variant = ToolMillis
              THEN currentBlockNumber - receipt.blockNumber + 1
              ELSE currentBlockNumber - receipt.blockNumber
        /\ outcome.confirmations >= expected

C1_Witness ==
    /\ outcome.kind = "confirmed"
    /\ outcome.receiptStatus = "success"
    /\ expected >= 2
    /\ outcome.confirmations = expected

\* C2: the iteration that reads a receipt with failed execution returns
\* Reverted with a revertReason, whether or not the count has reached the
\* expected number of confirmations.
C2_RevertedAtFirstSight ==
    [][(pc = "classify" /\ pc' # pc /\ receipt.present /\ receipt.status = "reverted")
          => (outcome'.kind = "reverted" /\ outcome'.revertReason # "absent")]_vars

\* C3: a poll that finds no receipt after a transaction of the same sender and
\* nonce was mined returns Replaced, and the original hash is never reported
\* Confirmed or Reverted.
C3_ReplacementDetected ==
    [][/\ (pc = "classify" /\ pc' # pc /\ ~receipt.present /\ tx.state = "replaced")
            => outcome'.kind = "replaced"
       /\ (tx.state = "replaced") => outcome'.kind \notin {"confirmed", "reverted"}]_vars

C5_EventuallyReturns == <>(pc = "done" /\ outcome.kind \in TerminalKinds)

C5_Witness ==
    /\ pc = "done"
    /\ outcome.kind = "timeout"
    /\ errorReports >= 1
    /\ iterations >= 2
    /\ ~receipt.present

\* C6: a terminal classification is never thrown and never delivered through
\* the failure envelope (success: false, isError: true).
C6_TerminalOutcomesAreValues ==
    pc = "done" =>
        /\ outcome.kind \in TerminalKinds
        /\ ~outcome.failure
        /\ ~delivered.isError

\* C7: through the MCP tool a timed-out call yields a non-error result with
\* status 'timeout' and a message containing "Timeout reached".
C7_McpTimeoutResult ==
    (frontend = "mcp" /\ outcome.kind = "timeout") =>
        /\ ~delivered.isError
        /\ delivered.status = "timeout"
        /\ ContainsTimeoutReached(delivered.message)

\* C8: through the CLI a call that times out without a receipt ends, once the
\* timeout has elapsed, with exit code 1 and an 'Error' message on stderr.
C8_CliTimeoutExitsWithError ==
    (frontend = "cli" /\ pc = "done" /\ ~receipt.present) =>
        /\ outcome.kind = "timeout"
        /\ Elapsed >= TimeoutMs(variant, timeout)
        /\ delivered.exitCode = 1
        /\ delivered.stderr = "Error"

C8_Witness ==
    /\ frontend = "cli"
    /\ pc = "done"
    /\ tx.state # "mined"
    /\ iterations >= 1
    /\ delivered.exitCode = 1

\* C9: a failed chain read is caught and reported, the iteration returns no
\* outcome and goes on to the sleep and the loop guard, and it leaves
\* untouched what a later classification depends on.
C9_ReadErrorsAreRetried ==
    [][/\ (pc = "catch" /\ pc' # pc)
            => /\ pc' = "sleep"
               /\ errorReports' >= 1
               /\ outcome' = NoOutcome
               /\ UNCHANGED <<currentBlockNumber, receipt>>
       /\ (pc' = "catch" \/ pc = "catch")
            => /\ outcome' = NoOutcome
               /\ UNCHANGED <<lastMilestonePercentage, milestones, expected, startTime>>
       /\ (pc = "sleep" /\ pc' # pc) => pc' = "guard"]_vars

C9_Witness ==
    /\ errorReports >= 1
    /\ outcome.kind = "confirmed"
    /\ outcome.confirmations >= expected

C11_InclusionCountsAsFirstConfirmation ==
    [][(pc = "classify" /\ pc' # pc /\ receipt.present)
          => /\ outcome'.kind = "confirmed"
                  => outcome'.confirmations = currentBlockNumber - receipt.blockNumber + 1
             /\ (/\ receipt.status = "success"
                 /\ expected = 1
                 /\ currentBlockNumber = receipt.blockNumber
                 /\ pc' # "catch")
                  => (outcome'.kind = "confirmed" /\ outcome'.confirmations = 1)]_vars

\* C12: when the receipt shows a failed execution and a read made to recover
\* the revert reason fails, the same iteration still returns Reverted, and
\* with getTransaction failing the revertReason is "Unknown".
C12_RevertedDespiteRecoveryFailure ==
    /\ recovery = "getTransaction"
          => (outcome.kind = "reverted" /\ outcome.revertReason = "Unknown")
    /\ recovery = "call"
          => (outcome.kind = "reverted" /\ outcome.revertReason # "absent")

\* C13: within one call every reported milestone is one of 25, 50, 75, 100,
\* none is reported twice and they are reported in strictly increasing
\* order, whatever counts the iterations observe.
C13_MilestonesStrictlyIncrease ==
    /\ \A i \in 1..Len(milestones) : \E k \in 1..Len(Milestones) : milestones[i] = Milestones[k]
    /\ \A i, j \in 1..Len(milestones) : i < j => milestones[i] < milestones[j]
    /\ lastMilestonePercentage =
          IF milestones = <<>> THEN 0 ELSE milestones[Len(milestones)]

\* 25 and 50 percent reported, later an iteration observes a lower count
C13_Witness ==
    /\ expected = 4
    /\ milestones = <<25, 50>>
    /\ receipt.present
    /\ currentBlockNumber - receipt.blockNumber = 1
    /\ iterations >= 2
    /\ pc = "guard"

\* C14: a call with expectedConfirmations <= 1 reports no progress milestone,
\* on any path, the iterations that return Confirmed or Reverted included.
C14_NoMilestonesForSingleConfirmation ==
    expected <= 1 => milestones = <<>>

\* C15: every call starts an iteration, with its height read, before its
\* first sleep, and no call returns TimedOut without having polled.
C15_PollsBeforeTimedOut ==
    /\ pc = "sleep" => iterations >= 1
    /\ outcome.kind = "timeout" => iterations >= 1

\* C16: a request whose hash is not 0x followed by 64 hex digits is rejected
\* by the validation before the handler runs: no iteration starts, no chain
\* read and no status report is made for it, through MCP and through the CLI.
C16_MalformedHashRejected ==
    (hash.prefix # "0x" \/ hash.digits # HashDigits \/ ~hash.hex) =>
        /\ pc \in {"validate", "done"}
        /\ pc = "done" =>
              /\ outcome.kind = "rejected"
              /\ IF frontend = "cli" THEN delivered.exitCode = 1 ELSE delivered.isError
        /\ iterations = 0
        /\ currentBlockNumber = 0 /\ receipt = NoReceipt
        /\ milestones = <<>> /\ errorReports = 0 /\ terminalReports = 0

C16_Witness ==
    /\ hash.prefix = "0x" /\ hash.hex /\ hash.digits = HashDigits - 1
    /\ frontend = "cli"
    /\ pc = "done"
    /\ outcome.kind = "rejected"
    /\ height > 0

\* C17: an invocation returns exactly one outcome: the handler has an outcome
\* exactly when it has returned, and after the return it makes no chain
\* read, no status report and no sleep, and the outcome and the delivered
\* result never change.
C17_OutcomeIsFinal ==
    [][/\ (pc = "done") <=> (outcome # NoOutcome)
       /\ (pc = "done" \/ outcome # NoOutcome)
            => UNCHANGED <<pc, outcome, delivered, now, currentBlockNumber, receipt,
                           lastMilestonePercentage, milestones, errorReports,
                           terminalReports, reportFailed, iterations, spent, recovery>>]_vars

\* the chain has moved on after a Confirmed result was returned
C17_Witness ==
    /\ pc = "done"
    /\ outcome.kind = "confirmed"
    /\ height > currentBlockNumber + 1
    /\ outcome.confirmations = currentBlockNumber - receipt.blockNumber

C19_RaceCountsZero ==
    /\ (pc = "classify" /\ receipt.present /\ receipt.blockNumber = currentBlockNumber + 1)
          => Confirmations(variant, currentBlockNumber, receipt.blockNumber) = 0
    /\ (outcome.kind = "confirmed" /\ expected >= 1)
          => receipt.blockNumber <= currentBlockNumber

\* C20: on a chain that stands still, with the transaction mined with success
\* and the threshold met, the fields of a Confirmed result are a function of
\* the chain state and the request alone (block number, receipt, count), so
\* any two invocations with the same request return identical ones.
C20_ConfirmedIsDeterministic ==
    (/\ outcome.kind = "confirmed"
     /\ tx.state = "mined" /\ tx.status = "success"
     /\ currentBlockNumber = height)
        => /\ outcome.blockNumber = tx.blockNumber
           /\ outcome.receiptStatus = "success"
           /\ outcome.confirmations =
                 IF variant = ToolMillis THEN height - tx.blockNumber + 1
                 ELSE height - tx.blockNumber
           /\ outcome.confirmations >= expected

\* Confirmed by a later poll of a call that had already polled, chain unchanged
C20_Witness ==
    /\ outcome.kind = "confirmed"
    /\ tx.state = "mined" /\ tx.status = "success"
    /\ currentBlockNumber = height
    /\ iterations >= 2
    /\ errorReports >= 1
    /\ expected >= 1

\* C21: when a tool's execute throws, the MCP wrapper returns an error
\* envelope (isError true, the error message in its content) instead of
\* propagating, and the CLI wrapper prints the error and exits non-zero.
C21_ThrownErrorsBecomeEnvelopes ==
    (toolCall.executed /\ toolCall.behaviour = "throws"
     /\ ~(toolCall.tool = "send_transaction" /\ toolCall.privateKey = "absent"))
        => /\ pc = "done"
           /\ delivered.done
           /\ IF frontend = "mcp"
              THEN delivered.isError /\ delivered.error = ErrThrown
              ELSE delivered.exitCode = 1 /\ delivered.stderr = "Error"

C21_Witness ==
    /\ toolCall.executed /\ toolCall.behaviour = "throws"
    /\ toolCall.tool = "call_contract"
    /\ frontend = "mcp"
    /\ delivered.isError

\* C22: on a server created without a private key, send_transaction returns
\* an error result (isError true, the text naming 'privateKey') and submits
\* no transaction.
C22_NoKeyNoTransaction ==
    (frontend = "mcp" /\ toolCall.tool = "send_transaction"
     /\ toolCall.privateKey = "absent" /\ toolCall.executed)
        => /\ delivered.done
           /\ delivered.isError
           /\ delivered.error = ErrNoPrivateKey
           /\ ~toolCall.submitted

C22_Witness ==
    /\ frontend = "mcp" /\ toolCall.tool = "send_transaction"
    /\ toolCall.privateKey = "absent" /\ toolCall.executed
    /\ toolCall.behaviour = "returns"
    /\ delivered.isError

\* C23: the CLI takes the RPC URL from the first present of the command's
\* --rpc-url, the global --rpc-url, ECLI_RPC_URL and RPC_URL, and exits with
\* code 1 without executing the tool only when none of them is present.
C23_RpcUrlPrecedence ==
    (frontend = "cli" /\ pc # "resolve" /\ toolCall.privateKey # "malformed")
        => IF toolCall.localRpcUrl THEN toolCall.rpcUrl = "local"
           ELSE IF toolCall.globalRpcUrl THEN toolCall.rpcUrl = "global"
           ELSE IF toolCall.ecliRpcUrl THEN toolCall.rpcUrl = "ecli"
           ELSE IF toolCall.envRpcUrl THEN toolCall.rpcUrl = "env"
           ELSE /\ delivered.done /\ delivered.exitCode = 1
                /\ ~toolCall.executed /\ toolCall.rpcUrl = "unresolved"

\* C24: after a poll that reaches no terminal outcome the monitor sleeps only
\* when time remains: once the elapsed time has reached the timeout it
\* returns TimedOut without sleeping another poll interval.
C24_SleepsOnlyWhenTimeRemains ==
    (pc = "sleep" /\ expected >= 1 /\ interval > 0 /\ timeout > 0)
        => now - startTime < TimeoutMs(variant, timeout)

\* C25: the polling loop only ever runs with expectedConfirmations >= 1,
\* pollInterval > 0 and timeout > 0: input validation rejects a request with
\* a zero (or negative) value for any of them before the loop.
C25_LoopRunsOnPositiveParameters ==
    pc \in {"getBlockNumber", "getTransactionReceipt", "classify", "catch", "sleep"}
        => expected >= 1 /\ interval > 0 /\ timeout > 0

\* C26: the outcome kind agrees with the receipt status read in the
\* returning iteration: no Confirmed for a receipt that indicates failure,
\* no Reverted for a receipt that indicates success.
C26_OutcomeAgreesWithReceiptStatus ==
    /\ outcome.kind = "confirmed" => receipt.present /\ receipt.status = "success"
    /\ outcome.kind = "reverted" => receipt.present /\ receipt.status = "reverted"

\* C27: once the transaction is mined with success and the chain height
\* gives the expected confirmations with at least one full poll interval
\* left before the deadline, and no chain read fails, the monitor returns
\* Confirmed and not TimedOut.
C27_ConfirmedWhenReadyInTime ==
    (readyInTime /\ errorReports = 0 /\ expected >= 1 /\ interval > 0 /\ timeout > 0)
        => outcome.kind # "timeout"

\* C28: two consecutive polls of one invocation are separated by exactly one
\* sleep of pollInterval, also after a caught chain-read error: a poll
\* starts only from the loop guard, and the guard is reached only from the
\* start of the call or from a sleep that lasted at least pollInterval.
C28_OneSleepBetweenPolls ==
    [][/\ (pc' = "getBlockNumber" /\ pc # "getBlockNumber") => pc = "guard"
       /\ (pc' = "guard" /\ pc # "guard")
            => \/ pc = "start"
               \/ pc = "sleep" /\ now' - now >= IntervalMs(interval)
       /\ (pc = "catch" /\ pc' # "catch") => pc' \in {"sleep", "done"}
       /\ (pc = "classify" /\ pc' # "classify") => pc' \in {"sleep", "catch", "done"}
       /\ (pc = "sleep" /\ pc' # "sleep") => pc' = "guard"]_vars

C28_Witness ==
    /\ pc = "getBlockNumber"
    /\ iterations >= 2
    /\ errorReports >= 1
    /\ interval > 0
    /\ now - startTime >= IntervalMs(interval)

\* C29: a terminal status message ('was reverted', 'confirmed with N
\* confirmations') is reported at most once per invocation and only in the
\* iteration that returns the matching outcome, never in an iteration that
\* goes on to sleep and poll again.
C29_TerminalMessageOnlyWhenReturning ==
    terminalReports > 0
        => /\ terminalReports = 1
           /\ pc = "done"
           /\ outcome.kind \in {"confirmed", "reverted"}

====
